---- MODULE Spec2Model ----
(***************************************************************************)
(* Model of the AVSpeech clip pipeline of AdemFabio/denoise:               *)
(*   - the producer loop of download_dataset.py,                           *)
(*   - the two Celery tasks download_video / crop_video (celery_tasks.py), *)
(*   - the fetcher download_partial_video_from_youtube (video_download.py),*)
(*   - the broker configuration of celery_app.py (one priority queue,      *)
(*     late acknowledgement, prefetch multiplier 1),                       *)
(*   - the crop engine FaceCropper (face_cropping.py).                     *)
(*                                                                         *)
(* The specifications share the variables:                                    *)
(*   Spec      the pipeline (producer, broker, workers, filesystem),       *)
(*   SpecCrop  FaceCropper.cut_face_from_video on bounded videos,          *)
(*   SpecPad   FaceCropper.pad_crop on bounded frames, sizes and centers.  *)
(*   SpecSample  the constructor and the sampling of the frame indices, on *)
(*             longer videos and more detection points,                    *)
(*   SpecPool  the pipeline served by a pool of one worker,                *)
(*   SpecInterp  the interpolation between two sampled frames of videos of *)
(*             23 and 75 frames,                                           *)
(*   SpecLive  the pipeline with no worker lost, under weak fairness.      *)
(***************************************************************************)
EXTENDS Integers, Sequences, FiniteSets, TLC

\* ------------------------------------------------------------------ bounds
\* Number of manifest rows the producer walks over.
MaxRows == 2
\* Number of worker crashes (lost connections) in one behaviour.
MaxCrashes == 1
\* Largest number of frames of a video handed to the crop engine.
MaxFrames == 5
\* Largest left / lower coordinate of a detected box.
MaxCoord == 2
\* Largest frame height and width handed to pad_crop.
MaxDim == 3
\* Largest crop height and width handed to pad_crop.
MaxCrop == 4

\* Largest num_detect_points and largest number of frames for which the
\* sampled frame indices alone are computed.
MaxPoints == 4
MaxSampleFrames == 10

\* ------------------------------------------------------- program constants
DURATION == 3
FetchPriority == 1
\* (variant: the crop task submitted at the fetch tasks' priority)
CropPrioritySame == FetchPriority
CropPriority == 2
XMaxPriority == 10
\* FaceCropper() in celery_tasks.py: the constructor's default
DefaultDetectPoints == 2

Clips == {"a", "b"}
\* The worker processes consuming the queue
Workers == {"w1", "w2"}
\* end - start of a manifest row, in seconds: one row too short, two long enough
RowSpans == {2, 3, 4}

Min(x, y) == IF x <= y THEN x ELSE y
Max(x, y) == IF x >= y THEN x ELSE y

\* A message: kind, clip id, priority, AMQP's redelivered flag, and (history)
\* whether a message of the other kind was pending when it was delivered.
NoTask == [kind |-> "none", clip |-> "none", priority |-> 0, redelivered |-> FALSE,
           passed |-> FALSE]

\* A bounding box is <<left, lower, right, upper>> (get_center's docstring).
BoxA == <<0, 0, 2, 2>>
BoxB == <<1, 2, 4, 4>>
\* What the detector can answer for one sampled frame of a pipeline clip:
\* no face (None), one face, two faces.
FrameAnswers == {<<>>, <<BoxA>>, <<BoxA, BoxB>>}
Unknown == <<>>

\* ------------------------------------------------------------------- state
VARIABLES
    \* producer
    rowsLeft,       \* manifest rows not yet visited
    \* broker
    queue,          \* messages ready for delivery, oldest first
    \* workers
    pc,             \* position of each worker inside its task body
    task,           \* the unacknowledged message each worker holds
    err,            \* exception raised inside the task body, "none" if none
    return_code,    \* crop_video's return_code, -1 before the engine returned
    sent,           \* the body called crop_video.apply_async
    \* filesystem
    rawVideo,       \* clips with downloaded_dir/<id>.mp4
    rawAudio,       \* clips with downloaded_dir/<id>.aac
    croppedVideo,   \* clips with cropped_dir/cropped_<id>.mp4
    croppedAudio,   \* clips with cropped_dir/<id>.aac
    \* the detector's answer for each clip's video, fixed by the video content
    faces,
    \* history
    downloads,      \* per clip: fetcher calls that returned a pair
    cropEnq,        \* per clip: crop tasks ever enqueued
    crashes,        \* worker crashes so far
    orphaned,       \* clips of which a fetch wrote the video and then failed
                    \* at the audio extraction
    \* FaceCropper.cut_face_from_video (specification SpecCrop)
    num_detect_points,      \* the constructor's argument
    frame_count,            \* len(videodata)
    epc,                    \* position inside the constructor / the method
    face_detect_frame_idxs, \* the sampled frame indices (0-based values)
    boxes,                  \* the detector's answer for each sampled frame
    center_coords_interp,   \* the interpolated track
    cropped_frames,         \* per frame: the window written, <<>> for zeros
    ret,                    \* the method's return value, -1 before it returns
    \* FaceCropper.pad_crop (specification SpecPad)
    padCall,                \* <<frame size, crop size and center>> of one call
    padResult               \* <<the slice taken>>, <<>> before the call

pipeVars == <<rowsLeft, queue, pc, task, err, return_code, sent, rawVideo,
              rawAudio, croppedVideo, croppedAudio, faces, downloads, cropEnq,
              crashes, orphaned>>

cropVars == <<num_detect_points, frame_count, epc, face_detect_frame_idxs, boxes,
              center_coords_interp, cropped_frames, ret>>

padVars == <<padCall, padResult>>

engVars == <<cropVars, padVars>>

vars == <<pipeVars, cropVars, padVars>>

\* ------------------------------------------------------------------ broker
\* x-max-priority: a message's priority above the queue's maximum counts as
\* the maximum.
EffPriority(m) == Min(m.priority, XMaxPriority)

\* The message the broker hands out next: the oldest among those of the
\* highest priority.
NextIndex(q) ==
    CHOOSE i \in 1..Len(q) :
        /\ \A j \in 1..Len(q) : EffPriority(q[j]) <= EffPriority(q[i])
        /\ \A j \in 1..(i - 1) : EffPriority(q[j]) < EffPriority(q[i])

Remove(q, i) == SubSeq(q, 1, i - 1) \o SubSeq(q, i + 1, Len(q))

Pending(q, k) == \E i \in 1..Len(q) : q[i].kind = k

\* apply_async of download_video from the producer loop
FetchMsg(c) ==
    [kind |-> "fetch", clip |-> c, priority |-> FetchPriority, redelivered |-> FALSE,
     passed |-> FALSE]

\* apply_async of crop_video from download_video
CropMsg(c) ==
    [kind |-> "crop", clip |-> c, priority |-> CropPriority, redelivered |-> FALSE,
     passed |-> FALSE]

\* ---------------------------------------------------------------- producer
\* One iteration of the loop over the manifest rows: a row shorter than
\* DURATION is skipped, any other row submits one fetch task.  Rows may
\* repeat a clip id.
ProducerRow ==
    /\ rowsLeft > 0
    /\ rowsLeft' = rowsLeft - 1
    /\ \E c \in Clips, span \in RowSpans :
          queue' = IF span < DURATION THEN queue ELSE Append(queue, FetchMsg(c))
    /\ UNCHANGED <<pc, task, err, return_code, sent, rawVideo, rawAudio,
                   croppedVideo, croppedAudio, faces, downloads, cropEnq,
                   crashes,
                   orphaned, engVars>>

\* ----------------------------------------------------------------- workers
\* worker_prefetch_multiplier = 1 with task_acks_late: a worker reserves a
\* message only while it holds no unacknowledged one.
Deliver(w) ==
    /\ pc[w] = "idle"
    /\ queue # <<>>
    /\ LET i == NextIndex(queue)
           m == queue[i]
           other == IF m.kind = "fetch" THEN "crop" ELSE "fetch"
       IN  /\ task' = [task EXCEPT ![w] = [m EXCEPT !.passed = Pending(queue, other)]]
           /\ queue' = Remove(queue, i)
           /\ pc' = [pc EXCEPT ![w] = IF m.kind = "fetch" THEN "fetch_check"
                                                          ELSE "crop_engine"]
    /\ UNCHANGED <<rowsLeft, err, return_code, sent, rawVideo, rawAudio,
                   croppedVideo, croppedAudio, faces, downloads, cropEnq, crashes,
                   orphaned, engVars>>

\* The exceptions download_video's except clauses name.
Caught == {"DownloadError", "UnexpectedURLInfo", "FailedDownload", "FileExistsError"}

\* (variant: the enqueue placed after the try statement, so that it also runs
\* once a handler has printed its exception)
AfterRaiseFallsThrough(e) == IF e \in Caught THEN "fetch_enqueue" ELSE "task_raise"

\* An exception leaves the try block: a caught one is printed and the body
\* returns, any other one leaves the task body.
AfterRaise(e) == IF e \in Caught THEN "task_done" ELSE "task_raise"

\* (variant: the existence check left out)
TargetExistsUnchecked(c) == FALSE

\* os.path.isfile on the two target paths
TargetExists(c) == c \in rawVideo \/ c \in rawAudio

\* download_partial_video_from_youtube, the existence check
FetchCheck(w) ==
    /\ pc[w] = "fetch_check"
    /\ LET c == task[w].clip
       IN  IF TargetExists(c)
           THEN /\ err' = [err EXCEPT ![w] = "FileExistsError"]
                /\ pc' = [pc EXCEPT ![w] = AfterRaise("FileExistsError")]
           ELSE /\ pc' = [pc EXCEPT ![w] = "fetch_resolve"]
                /\ err' = err
    /\ UNCHANGED <<rowsLeft, queue, task, return_code, sent, rawVideo, rawAudio,
                   croppedVideo, croppedAudio, faces, downloads, cropEnq,
                   crashes,
                   orphaned, engVars>>

\* get_video_audio_urls and the unpacking of its result: None (a download
\* error, or no pair of requested formats) cannot be unpacked.
FetchResolve(w) ==
    /\ pc[w] = "fetch_resolve"
    /\ \E urls \in {"pair", "None"} :
          IF urls = "pair"
          THEN /\ pc' = [pc EXCEPT ![w] = "fetch_video"]
               /\ err' = err
          ELSE /\ err' = [err EXCEPT ![w] = "TypeError"]
               /\ pc' = [pc EXCEPT ![w] = AfterRaise("TypeError")]
    /\ UNCHANGED <<rowsLeft, queue, task, return_code, sent, rawVideo, rawAudio,
                   croppedVideo, croppedAudio, faces, downloads, cropEnq,
                   crashes,
                   orphaned, engVars>>

\* What a failed or timed out ffmpeg run raises
ExtractError(outcome) ==
    IF outcome = "nonzero" THEN "FileNotFoundError" ELSE "TimeoutExpired"

\* subprocess.run of download_cmd_video: exit code 0 leaves the file; a
\* nonzero exit or the 10 s timeout may leave a partial file or none.
FetchVideo(w) ==
    /\ pc[w] = "fetch_video"
    /\ LET c == task[w].clip
       IN  \E outcome \in {"ok", "nonzero", "timeout"}, left \in BOOLEAN :
              IF outcome = "ok"
              THEN /\ left
                   /\ rawVideo' = rawVideo \cup {c}
                   /\ pc' = [pc EXCEPT ![w] = "fetch_audio"]
                   /\ err' = err
              ELSE /\ rawVideo' = IF left THEN rawVideo \cup {c} ELSE rawVideo
                   /\ err' = [err EXCEPT ![w] = ExtractError(outcome)]
                   /\ pc' = [pc EXCEPT ![w] = AfterRaise(ExtractError(outcome))]
    /\ UNCHANGED <<rowsLeft, queue, task, return_code, sent, rawAudio,
                   croppedVideo, croppedAudio, faces, downloads, cropEnq,
                   crashes,
                   orphaned, engVars>>

\* subprocess.run of download_cmd_audio, then return file_video, file_audio
FetchAudio(w) ==
    /\ pc[w] = "fetch_audio"
    /\ LET c == task[w].clip
       IN  \E outcome \in {"ok", "nonzero", "timeout"}, left \in BOOLEAN :
              IF outcome = "ok"
              THEN /\ left
                   /\ rawAudio' = rawAudio \cup {c}
                   /\ downloads' = [downloads EXCEPT ![c] = @ + 1]
                   /\ orphaned' = orphaned
                   /\ pc' = [pc EXCEPT ![w] = "fetch_enqueue"]
                   /\ err' = err
              ELSE /\ rawAudio' = IF left THEN rawAudio \cup {c} ELSE rawAudio
                   /\ downloads' = downloads
                   /\ orphaned' = orphaned \cup {c}
                   /\ err' = [err EXCEPT ![w] = ExtractError(outcome)]
                   /\ pc' = [pc EXCEPT ![w] = AfterRaise(ExtractError(outcome))]
    /\ UNCHANGED <<rowsLeft, queue, task, return_code, sent, rawVideo,
                   croppedVideo, croppedAudio, faces, cropEnq, crashes,
                   engVars>>

\* download_video: crop_video.apply_async(..., priority=2), the last
\* statement of the try block
FetchEnqueue(w) ==
    /\ pc[w] = "fetch_enqueue"
    /\ LET c == task[w].clip
       IN  /\ queue' = Append(queue, CropMsg(c))
           /\ cropEnq' = [cropEnq EXCEPT ![c] = @ + 1]
    /\ sent' = [sent EXCEPT ![w] = TRUE]
    /\ pc' = [pc EXCEPT ![w] = "task_done"]
    /\ UNCHANGED <<rowsLeft, task, err, return_code, rawVideo, rawAudio,
                   croppedVideo, croppedAudio, faces, downloads, crashes,
                   orphaned, engVars>>

\* ------------------------------------------------------------- crop engine
\* cut_face_from_video, the check of the detector's answers: every sampled
\* frame must hold exactly one face (b is None or len(b) != 1 rejects).
OneFace(b) == Len(b) = 1

Accepted(bs) == \A j \in 1..Len(bs) : OneFace(bs[j])

\* The detector's answers for the sampled frames of a pipeline clip
ClipAnswers == [1..DefaultDetectPoints -> FrameAnswers]

\* (variant: the handoff done whatever the engine returned)
HandoffAlways(rc) == TRUE

\* crop_video goes on to the handoff when the engine returned 0.
Handoff(rc) == rc = 0

\* crop_video: face_cropper.cut_face_from_video(video_file, cropped_dir).
\* vread fails on a missing file; a rejected video returns 1 and writes
\* nothing; an accepted one writes cropped_<name> and returns 0.
CropEngine(w) ==
    /\ pc[w] = "crop_engine"
    /\ LET c == task[w].clip
       IN  IF c \notin rawVideo
           THEN /\ err' = [err EXCEPT ![w] = "ReadError"]
                /\ pc' = [pc EXCEPT ![w] = "task_raise"]
                /\ UNCHANGED <<faces, croppedVideo, return_code>>
           ELSE \E f \in ClipAnswers :
                  /\ faces[c] \in {Unknown, f}
                  /\ faces' = [faces EXCEPT ![c] = f]
                  /\ LET rc == IF Accepted(f) THEN 0 ELSE 1
                     IN  /\ return_code' = [return_code EXCEPT ![w] = rc]
                         /\ croppedVideo' = IF Accepted(f) THEN croppedVideo \cup {c}
                                                           ELSE croppedVideo
                         /\ pc' = [pc EXCEPT ![w] = IF Handoff(rc) THEN "crop_remove"
                                                                   ELSE "task_done"]
                  /\ err' = err
    /\ UNCHANGED <<rowsLeft, queue, task, sent, rawVideo, rawAudio, croppedAudio,
                   downloads, cropEnq, crashes,
                   orphaned, engVars>>

\* crop_video: os.remove(video_file)
CropRemove(w) ==
    /\ pc[w] = "crop_remove"
    /\ LET c == task[w].clip
       IN  IF c \in rawVideo
           THEN /\ rawVideo' = rawVideo \ {c}
                /\ pc' = [pc EXCEPT ![w] = "crop_rename"]
                /\ err' = err
           ELSE /\ rawVideo' = rawVideo
                /\ err' = [err EXCEPT ![w] = "FileNotFoundError"]
                /\ pc' = [pc EXCEPT ![w] = "task_raise"]
    /\ UNCHANGED <<rowsLeft, queue, task, return_code, sent, rawAudio,
                   croppedVideo, croppedAudio, faces, downloads, cropEnq,
                   crashes,
                   orphaned, engVars>>

\* crop_video: os.rename(audio_file, cropped_dir/<audio name>)
CropRename(w) ==
    /\ pc[w] = "crop_rename"
    /\ LET c == task[w].clip
       IN  IF c \in rawAudio
           THEN /\ rawAudio' = rawAudio \ {c}
                /\ croppedAudio' = croppedAudio \cup {c}
                /\ pc' = [pc EXCEPT ![w] = "task_done"]
                /\ err' = err
           ELSE /\ UNCHANGED <<rawAudio, croppedAudio>>
                /\ err' = [err EXCEPT ![w] = "FileNotFoundError"]
                /\ pc' = [pc EXCEPT ![w] = "task_raise"]
    /\ UNCHANGED <<rowsLeft, queue, task, return_code, sent, rawVideo,
                   croppedVideo, faces, downloads, cropEnq, crashes,
                   orphaned, engVars>>

\* (variant: task_acks_late off, the message acknowledged once it is taken)
AcksEarly(p) == p # "idle"

\* task_acks_late = True: a message can be acknowledged when its task body has
\* ended.
AcksLate(p) == p \in {"task_done", "task_raise"}

\* task_acks_late: the message is acknowledged once the body has returned
\* or raised (Celery acknowledges a late-ack task that failed, it does not
\* requeue it); the worker is free again.
TaskFinish(w) ==
    /\ AcksLate(pc[w])
    /\ pc' = [pc EXCEPT ![w] = "idle"]
    /\ task' = [task EXCEPT ![w] = NoTask]
    /\ err' = [err EXCEPT ![w] = "none"]
    /\ return_code' = [return_code EXCEPT ![w] = -1]
    /\ sent' = [sent EXCEPT ![w] = FALSE]
    /\ UNCHANGED <<rowsLeft, queue, rawVideo, rawAudio, croppedVideo,
                   croppedAudio, faces, downloads, cropEnq, crashes,
                   orphaned, engVars>>

\* A worker is lost while it holds an unacknowledged message: the broker
\* requeues the message, marked redelivered; the files stay as they are.
Crash(w) ==
    /\ pc[w] # "idle"
    /\ crashes < MaxCrashes
    /\ crashes' = crashes + 1
    /\ queue' = <<[task[w] EXCEPT !.redelivered = TRUE, !.passed = FALSE]>> \o queue
    /\ pc' = [pc EXCEPT ![w] = "idle"]
    /\ task' = [task EXCEPT ![w] = NoTask]
    /\ err' = [err EXCEPT ![w] = "none"]
    /\ return_code' = [return_code EXCEPT ![w] = -1]
    /\ sent' = [sent EXCEPT ![w] = FALSE]
    /\ UNCHANGED <<rowsLeft, rawVideo, rawAudio, croppedVideo, croppedAudio,
                   faces, downloads, cropEnq,
                   orphaned, engVars>>

\* ------------------------------------------- FaceCropper, frame by frame
\* (variant: the evenly spaced values rounded to the nearest integer, halves
\* upwards)
LinspaceNearest(last, k) ==
    IF k = 1 THEN <<0>>
    ELSE [j \in 1..k |-> (2 * (j - 1) * last + (k - 1)) \div (2 * (k - 1))]

\* np.linspace(0, frame_count - 1, k, dtype=int): k evenly spaced values, cut
\* to integers (all are >= 0, so cutting is the floor); one value is the start.
Linspace(last, k) ==
    IF k = 1 THEN <<0>>
    ELSE [j \in 1..k |-> ((j - 1) * last) \div (k - 1)]

\* get_center: (center_row, center_col) of <<left, lower, right, upper>>
get_center(coords) ==
    <<(coords[2] + coords[4]) \div 2, (coords[1] + coords[3]) \div 2>>

\* get_height_width: (height, width) of <<left, lower, right, upper>>
get_height_width(coords) ==
    <<coords[4] - coords[2], coords[3] - coords[1]>>

\* The largest e with 2^e <= num/den (num, den > 0)
RECURSIVE FloorLog2(_, _)
FloorLog2(num, den) ==
    IF num >= 2 * den THEN 1 + FloorLog2(num, 2 * den)
    ELSE IF num < den THEN FloorLog2(2 * num, den) - 1
    ELSE 0

\* (r * 2^k) % md
RECURSIVE TimesPow2Mod(_, _, _)
TimesPow2Mod(r, k, md) ==
    IF k = 0 THEN r % md ELSE TimesPow2Mod((2 * r) % md, k - 1, md)

\* m / sp to the nearest integer, a half to the even one (IEEE 754)
RoundHalfEven(m, sp) ==
    LET q == m \div sp
        r == m % sp
    IN  IF 2 * r > sp THEN q + 1
        ELSE IF 2 * r = sp THEN q + (q % 2)
        ELSE q

\* np.interp works in doubles (53-bit significands): slope = (v1 - v0)/t_end,
\* value = slope*t + v0, each operation rounded.  Where the exact value N is
\* not an integer the double is nowhere near one; where it is, the rounded
\* slope can leave the double just below N.  With a = |v1 - v0|, e the binary
\* exponent of a/t_end and unit 2^(e-52):
\*   serr  the slope's rounding error times t_end (rem when rounded down,
\*         rem - t_end when rounded up), m = serr*t/t_end the error of the
\*         exact product slope*t against K = a*t/t_end;
\*   dev   what is left of it once the product is rounded to a double (the
\*         doubles next to K are sp apart below it, su above it);
\*   the sum with v0 falls below N when dev points below N and exceeds half
\*   the distance 2^h from N to the double below it.
DoubleFallsShort(v0, v1, t, t_end) ==
    LET d == v1 - v0
        a == IF d < 0 THEN -d ELSE d
    IN  /\ t > 0
        /\ d # 0
        /\ (d * t) % t_end = 0
        /\ LET K   == (a * t) \div t_end
               N   == v0 + (d * t) \div t_end
               e   == FloorLog2(a, t_end)
               R2  == TimesPow2Mod(a, 52 - e, 2 * t_end)
               rem == R2 % t_end
               up  == 2 * rem > t_end \/ (2 * rem = t_end /\ R2 >= t_end)
               serr == IF up THEN rem - t_end ELSE rem
               m   == (serr * t) \div t_end
               eK  == FloorLog2(K, 1)
               sp  == IF K = 2 ^ eK THEN 2 ^ (eK - e - 1) ELSE 2 ^ (eK - e)
               su  == 2 ^ (eK - e)
               dev == IF m > 0 THEN -(RoundHalfEven(m, sp) * sp)
                      ELSE IF m < 0 THEN RoundHalfEven(-m, su) * su
                      ELSE 0
               below == IF d > 0 THEN -dev ELSE dev
               eN  == FloorLog2(N, 1)
               h   == IF N = 2 ^ eN THEN eN - e - 1 ELSE eN - e
           IN  /\ below > 0
               /\ (h >= 0 => 2 * below > 2 ^ h)

\* np.interp(t, [0, t_end], [v0, v1]) cut to an integer by int().  The values
\* lie between two centers, so they are >= 0 and int() is the floor of the
\* double: the floor of the exact value, or one less where the double fell
\* just below an integer.
InterpAt(v0, v1, t, t_end) ==
    LET exact == v0 + ((v1 - v0) * t) \div t_end
    IN  IF DoubleFallsShort(v0, v1, t, t_end) THEN exact - 1 ELSE exact

\* interpolate_coords: one (y, x) pair for each t of arange(0, t_end)
interpolate_coords(coords_start, coords_end, t_end) ==
    [i \in 1..t_end |->
        <<InterpAt(coords_start[1], coords_end[1], i - 1, t_end),
          InterpAt(coords_start[2], coords_end[2], i - 1, t_end)>>]

\* cut_face_from_video, the loop over zip(boxes[:-1], boxes[1:], idxs[:-1],
\* idxs[1:]): the segments' interpolations, one after the other.  bs holds
\* the sampled frames' answers (one box each), ix the sampled indices.
RECURSIVE Segments(_, _, _)
Segments(bs, ix, j) ==
    IF j >= Len(ix) THEN <<>>
    ELSE interpolate_coords(get_center(bs[j][1]), get_center(bs[j + 1][1]),
                            ix[j + 1] - ix[j])
         \o Segments(bs, ix, j + 1)

\* The boxes the detector can report: left and lower anywhere in
\* 0..MaxCoord, in one of two sizes <<height, width>>.
EngineBoxes ==
    {<<l, lo, l + sz[2], lo + sz[1]>> :
        l \in 0..MaxCoord, lo \in 0..MaxCoord, sz \in {<<2, 3>>, <<4, 1>>}}

\* What the detector can answer for one sampled frame: no face, one face, or
\* two faces.
EngineAnswers == {<<>>, <<BoxA, BoxB>>} \cup {<<b>> : b \in EngineBoxes}

\* FaceCropper.__init__: fewer than two detection points raise ValueError.
Construct ==
    /\ epc = "init"
    /\ epc' = IF num_detect_points < 2 THEN "value_error" ELSE "sample"
    /\ UNCHANGED <<num_detect_points, frame_count, face_detect_frame_idxs, boxes,
                   center_coords_interp, cropped_frames, ret, padVars, pipeVars>>

\* cut_face_from_video: the sampled frame indices
Sample ==
    /\ epc = "sample"
    /\ face_detect_frame_idxs' =
          Linspace(frame_count - 1, Min(num_detect_points, frame_count))
    /\ epc' = "detect"
    /\ UNCHANGED <<num_detect_points, frame_count, boxes, center_coords_interp,
                   cropped_frames, ret, padVars, pipeVars>>

\* cut_face_from_video: self.model.detect on the sampled frames, and the
\* check that each holds exactly one face
Detect ==
    /\ epc = "detect"
    /\ \E answer \in [1..Len(face_detect_frame_idxs) -> EngineAnswers] :
          /\ boxes' = answer
          /\ IF Accepted(answer)
             THEN epc' = "interpolate" /\ ret' = ret
             ELSE epc' = "returned" /\ ret' = 1
    /\ UNCHANGED <<num_detect_points, frame_count, face_detect_frame_idxs,
                   center_coords_interp, cropped_frames, padVars, pipeVars>>

\* cut_face_from_video: center_coords_interp, built segment by segment
Interpolate ==
    /\ epc = "interpolate"
    /\ center_coords_interp' = Segments(boxes, face_detect_frame_idxs, 1)
    /\ epc' = "crop"
    /\ UNCHANGED <<num_detect_points, frame_count, face_detect_frame_idxs, boxes,
                   cropped_frames, ret, padVars, pipeVars>>

\* (variant: the size taken from the last sampled frame's box)
LastFace(bs) == bs[Len(bs)][1]

\* boxes[0][0]: the one face of the first sampled frame
FirstFace(bs) == bs[1][1]

\* cut_face_from_video: cropped_frames starts as zeros, one entry per frame of
\* the video; the loop over zip(videodata, center_coords_interp) fills the
\* entries both sequences reach, each with the window around its center, of
\* the first sampled frame's height and width; then vwrite and return 0.
CropFrames ==
    /\ epc = "crop"
    /\ LET hw == get_height_width(FirstFace(boxes))
           reached == Min(frame_count, Len(center_coords_interp))
       IN  cropped_frames' =
              [f \in 1..frame_count |->
                  IF f <= reached
                  THEN <<center_coords_interp[f], hw>>
                  ELSE <<>>]
    /\ epc' = "returned"
    /\ ret' = 0
    /\ UNCHANGED <<num_detect_points, frame_count, face_detect_frame_idxs, boxes,
                   center_coords_interp, padVars, pipeVars>>

\* ---------------------------------------------------- FaceCropper.pad_crop
\* (variant: the frame sliced without the padding)
PadWidthNone(size) == 0

\* np.pad(frame, ((height, height), (width, width), (0, 0))): the zeros added
\* before and after each axis, which is also the slice's offset
PadWidth(size) == size

\* Python's reading of one slice bound on an axis of length len: a negative
\* bound counts from the end, and the result is clipped to 0..len.
SliceBound(i, len) ==
    IF i < 0 THEN Max(i + len, 0) ELSE Min(i, len)

\* The indices a[start:stop] selects on an axis of length len
SliceIndices(start, stop, len) ==
    {i \in 0..(len - 1) : SliceBound(start, len) <= i /\ i < SliceBound(stop, len)}

\* pad_crop(frame, upper, lower, left, right) on a frame of H rows and W
\* columns: the padded buffer's size, the slice bounds as written, and the
\* rows and columns the slice selects.
pad_crop(H, W, upper, lower, left, right) ==
    LET height == lower - upper
        width == right - left
        bufRows == H + 2 * PadWidth(height)
        bufCols == W + 2 * PadWidth(width)
    IN  [bufRows |-> bufRows,
         bufCols |-> bufCols,
         rowStart |-> PadWidth(height) + upper,
         rowStop |-> PadWidth(height) + lower,
         colStart |-> PadWidth(width) + left,
         colStop |-> PadWidth(width) + right,
         rows |-> SliceIndices(PadWidth(height) + upper, PadWidth(height) + lower,
                               bufRows),
         cols |-> SliceIndices(PadWidth(width) + left, PadWidth(width) + right,
                               bufCols)]

\* cut_face_from_video, the body of the loop over the frames: the window's
\* bounds from the center and the fixed height and width, then pad_crop
CropWindow(H, W, center, height, width) ==
    LET upper == center[1] - height \div 2
        lower == upper + height
        left == center[2] - width \div 2
        right == left + width
    IN  pad_crop(H, W, upper, lower, left, right)

PadCropCall ==
    /\ padResult = <<>>
    /\ padCall # <<>>
    /\ LET call == padCall[1]
       IN  padResult' = <<CropWindow(call.H, call.W, call.center, call.height,
                                     call.width)>>
    /\ UNCHANGED <<padCall, cropVars, pipeVars>>

\* ---------------------------------------------------------- specification
\* The pipeline's state before the producer starts
InitPipe ==
    /\ rowsLeft = MaxRows
    /\ queue = <<>>
    /\ pc = [w \in Workers |-> "idle"]
    /\ task = [w \in Workers |-> NoTask]
    /\ err = [w \in Workers |-> "none"]
    /\ return_code = [w \in Workers |-> -1]
    /\ sent = [w \in Workers |-> FALSE]
    /\ rawVideo = {}
    /\ rawAudio = {}
    /\ croppedVideo = {}
    /\ croppedAudio = {}
    /\ faces = [c \in Clips |-> Unknown]
    /\ downloads = [c \in Clips |-> 0]
    /\ cropEnq = [c \in Clips |-> 0]
    /\ crashes = 0
    /\ orphaned = {}

\* No call of the crop engine under way
IdleCrop ==
    /\ num_detect_points = DefaultDetectPoints
    /\ frame_count = 0
    /\ epc = "idle"
    /\ face_detect_frame_idxs = <<>>
    /\ boxes = <<>>
    /\ center_coords_interp = <<>>
    /\ cropped_frames = <<>>
    /\ ret = -1

\* No call of pad_crop under way
IdlePad ==
    /\ padCall = <<>>
    /\ padResult = <<>>

Init == InitPipe /\ IdleCrop /\ IdlePad

Next ==
    \/ ProducerRow
    \/ \E w \in Workers : Deliver(w)
    \/ \E w \in Workers : FetchCheck(w)
    \/ \E w \in Workers : FetchResolve(w)
    \/ \E w \in Workers : FetchVideo(w)
    \/ \E w \in Workers : FetchAudio(w)
    \/ \E w \in Workers : FetchEnqueue(w)
    \/ \E w \in Workers : CropEngine(w)
    \/ \E w \in Workers : CropRemove(w)
    \/ \E w \in Workers : CropRename(w)
    \/ \E w \in Workers : TaskFinish(w)
    \/ \E w \in Workers : Crash(w)

Spec == Init /\ [][Next]_vars

\* The crop engine on every video of 1..MaxFrames frames, constructed with 1,
\* 2 or 3 detection points
InitCrop ==
    /\ InitPipe
    /\ IdlePad
    /\ num_detect_points \in {1, 2, 3}
    /\ frame_count \in 1..MaxFrames
    /\ epc = "init"
    /\ face_detect_frame_idxs = <<>>
    /\ boxes = <<>>
    /\ center_coords_interp = <<>>
    /\ cropped_frames = <<>>
    /\ ret = -1

NextCrop ==
    \/ Construct
    \/ Sample
    \/ Detect
    \/ Interpolate
    \/ CropFrames

SpecCrop == InitCrop /\ [][NextCrop]_vars

\* pad_crop as the frame loop calls it, on every frame size up to MaxDim x
\* MaxDim, every crop size up to MaxCrop x MaxCrop and every center inside
\* the frame
InitPad ==
    /\ InitPipe
    /\ IdleCrop
    /\ padResult = <<>>
    /\ \E h \in 1..MaxDim, w \in 1..MaxDim, ht \in 0..MaxCrop, wd \in 0..MaxCrop :
          \E cy \in 0..(h - 1), cx \in 0..(w - 1) :
             padCall = <<[H |-> h, W |-> w, center |-> <<cy, cx>>,
                          height |-> ht, width |-> wd]>>

NextPad == PadCropCall

SpecPad == InitPad /\ [][NextPad]_vars

\* ------------------------------------------------------ pipeline properties
Holds(w, kind) == task[w].kind = kind

\* The body of a fetch task returned without any exception.
FetchReturnedSuccess(w) ==
    Holds(w, "fetch") /\ pc[w] = "task_done" /\ err[w] = "none"

CropMessages(c) ==
    {i \in 1..Len(queue) : queue[i].kind = "crop" /\ queue[i].clip = c}

\* C1: a crop task is enqueued if and only if a fetch task execution for
\* the clip returned success, and only after that fetch's download completed:
\* every crop task ever enqueued (waiting or held by a worker) follows its own
\* completed download, a fetch body that enqueued a crop task is one that
\* returns with no exception, and a fetch body that returned with no
\* exception has enqueued its crop task.
C1_CropIffFetchSuccess ==
    /\ \A c \in Clips :
          /\ cropEnq[c] + Cardinality({w \in Workers : Holds(w, "fetch")
                                         /\ task[w].clip = c
                                         /\ pc[w] = "fetch_enqueue"})
                <= downloads[c]
          /\ CropMessages(c) # {} => downloads[c] >= 1
    /\ \A w \in Workers :
          /\ Holds(w, "crop") => downloads[task[w].clip] >= 1
          /\ Holds(w, "fetch") =>
                /\ sent[w] => FetchReturnedSuccess(w)
                /\ FetchReturnedSuccess(w) => sent[w]

\* C1 witness: a fetch body has returned with success and its crop task waits
\* in the queue.
C1_Witness ==
    \E w \in Workers :
        /\ FetchReturnedSuccess(w)
        /\ sent[w]
        /\ CropMessages(task[w].clip) # {}

\* C3: no fetch task is delivered while a crop task is waiting in the queue.
C3_CropFirst ==
    \A w \in Workers : Holds(w, "fetch") => ~task[w].passed

\* C3 witness: a worker took a crop task while a fetch task was pending.
C3_Witness ==
    \E w \in Workers : Holds(w, "crop") /\ task[w].passed

\* The state one uninterrupted successful crop execution ends in.
HandedOff(c) ==
    /\ c \in croppedVideo
    /\ c \notin rawVideo
    /\ c \in croppedAudio
    /\ c \notin rawAudio

\* C4: a crop task redelivered after a crash inside its body completes and ends
\* in the state of one uninterrupted successful execution (for a video the
\* detector accepts): cropped video present, raw video removed, audio in
\* cropped_dir.
C4_CropRerunSafe ==
    \A w \in Workers :
        (/\ Holds(w, "crop")
         /\ task[w].redelivered
         /\ pc[w] \in {"task_done", "task_raise"}
         /\ faces[task[w].clip] # Unknown
         /\ Accepted(faces[task[w].clip]))
        => (pc[w] = "task_done" /\ HandedOff(task[w].clip))

\* Worker w takes the step that leaves the fetcher's existence check.
LeavesCheck(w) ==
    /\ Holds(w, "fetch")
    /\ pc[w] = "fetch_check"
    /\ pc'[w] \notin {"fetch_check", "idle"}

\* C5: once one fetch execution for a clip has succeeded, every later fetch
\* execution for the same clip fails with AlreadyExists and downloads nothing.
C5_RefetchAlreadyExists ==
    [][\A w \in Workers :
          (LeavesCheck(w) /\ downloads[task[w].clip] > 0)
          => (err'[w] = "FileExistsError" /\ pc'[w] = "task_done")]_vars

\* C6: a fetcher call that finds both files of an earlier successful call
\* raises FileExistsError before it resolves or extracts anything, and leaves
\* both files as they are.
C6_SecondCallRaises ==
    [][\A w \in Workers :
          (/\ LeavesCheck(w)
           /\ downloads[task[w].clip] > 0
           /\ task[w].clip \in rawVideo
           /\ task[w].clip \in rawAudio)
          => (/\ err'[w] = "FileExistsError"
              /\ pc'[w] = "task_done"
              /\ ~sent'[w]
              /\ UNCHANGED <<rawVideo, rawAudio, croppedVideo, croppedAudio,
                             downloads, queue>>)]_vars

\* C6 witness: a second call has raised FileExistsError with both files of the
\* first call on disk.
C6_Witness ==
    \E w \in Workers :
        /\ Holds(w, "fetch")
        /\ pc[w] = "task_done"
        /\ err[w] = "FileExistsError"
        /\ downloads[task[w].clip] > 0
        /\ task[w].clip \in rawVideo
        /\ task[w].clip \in rawAudio

\* Worker w is past the existence check and has writes to c's files ahead.
Writing(w, c) ==
    /\ Holds(w, "fetch")
    /\ task[w].clip = c
    /\ pc[w] \in {"fetch_resolve", "fetch_video", "fetch_audio"}

\* Worker w reads, deletes or moves c's files.
Consuming(w, c) ==
    /\ Holds(w, "crop")
    /\ task[w].clip = c
    /\ pc[w] \in {"crop_engine", "crop_remove", "crop_rename"}

\* C7: each clip's files are written by at most one fetch execution and
\* consumed by at most one crop execution: never two executions past the
\* existence check for the same clip, never a crop execution on files a fetch
\* execution is writing, never two completed downloads of one clip.
C7_NoRaceOnPaths ==
    \A c \in Clips :
        /\ downloads[c] <= 1
        /\ \A w1, w2 \in Workers :
              w1 # w2 =>
                 /\ ~(Writing(w1, c) /\ Writing(w2, c))
                 /\ ~(Writing(w1, c) /\ Consuming(w2, c))
                 /\ ~(Consuming(w1, c) /\ Consuming(w2, c))

\* C8: a video with a sampled frame holding no face or several faces is
\* rejected: the engine returns 1 and writes no cropped video, the crop task
\* ends without deleting the raw video or moving the audio, and it enqueues
\* nothing.
C8_RejectionKeepsRaw ==
    /\ \A c \in Clips :
          (faces[c] # Unknown /\ ~Accepted(faces[c]))
          => (/\ c \notin croppedVideo
              /\ c \notin croppedAudio
              /\ c \in rawVideo
              /\ c \in rawAudio)
    /\ \A w \in Workers :
          (Holds(w, "crop") /\ return_code[w] = 1)
          => (pc[w] = "task_done" /\ ~sent[w] /\ ~Accepted(faces[task[w].clip]))

\* C8 witness: a crop task has ended on the engine's return code 1.
C8_Witness ==
    \E w \in Workers :
        /\ Holds(w, "crop")
        /\ return_code[w] = 1
        /\ pc[w] = "task_done"
        /\ task[w].clip \in rawVideo
        /\ task[w].clip \in rawAudio

\* --------------------------------------------------- crop engine properties
\* The engine accepted the video and has built its track.
TrackBuilt == epc \in {"crop", "returned"} /\ ret # 1

\* C2: for a video of n frames whose k >= 2 sampled frames each hold one face,
\* the interpolated track has exactly n centers, one per frame index of
\* [0, n), the last sampled index n - 1 included.
C2_TrackHasEveryFrame ==
    (TrackBuilt /\ Len(face_detect_frame_idxs) >= 2)
    => DOMAIN center_coords_interp = 1..frame_count

\* C9: for an accepted video (of two sampled frames or more) the track's entry
\* at every sampled frame index (the first, the intermediate ones and the
\* last) is the center detected at that frame.
C9_TrackEqualsKeyframeCenters ==
    (TrackBuilt /\ Len(face_detect_frame_idxs) >= 2) =>
        \A j \in 1..Len(face_detect_frame_idxs) :
            /\ face_detect_frame_idxs[j] + 1 \in DOMAIN center_coords_interp
            /\ center_coords_interp[face_detect_frame_idxs[j] + 1]
                  = get_center(boxes[j][1])

\* C10: for a center inside the frame and any crop size, pad_crop slices only
\* indices inside the zero-padded buffer of (H + 2*height) x (W + 2*width)
\* (no bound is negative, none exceeds the buffer) and returns a window of
\* exactly height x width.
C10_PadCropInBounds ==
    padResult # <<>> =>
        LET r == padResult[1]
            call == padCall[1]
        IN  /\ r.bufRows = call.H + 2 * call.height
            /\ r.bufCols = call.W + 2 * call.width
            /\ 0 <= r.rowStart /\ r.rowStop <= r.bufRows
            /\ 0 <= r.colStart /\ r.colStop <= r.bufCols
            /\ r.rows = r.rowStart..(r.rowStop - 1)
            /\ r.cols = r.colStart..(r.colStop - 1)
            /\ Cardinality(r.rows) = call.height
            /\ Cardinality(r.cols) = call.width

\* C10 witness: a window taller and wider than the frame, cut around the
\* frame's last row and column, and one cut around its first row and column.
C10_Witness ==
    /\ padResult # <<>>
    /\ padCall[1].center \in {<<padCall[1].H - 1, padCall[1].W - 1>>, <<0, 0>>}
    /\ padCall[1].height > padCall[1].H
    /\ padCall[1].width > padCall[1].W

\* --------------------------------------------- pipeline properties, continued
\* C11: every error the fetcher produces inside a fetch task (target exists,
\* no pair of stream URLs, extraction timeout, extraction with a nonzero exit
\* code) is caught inside download_video: the body returns normally, enqueues
\* no crop task, and nothing reaches the broker.
C11_FetchErrorsSwallowed ==
    \A w \in Workers :
        (Holds(w, "fetch") /\ err[w] # "none")
        => (pc[w] = "task_done" /\ ~sent[w])

\* C12: the fetcher returns its pair only after both extractions exited with
\* code 0, and at the moment a crop task is enqueued both of its input files
\* are on disk.
C12_PairMeansBothFiles ==
    \A w \in Workers :
        (Holds(w, "fetch") /\ pc[w] = "fetch_enqueue")
        => (/\ err[w] = "none"
            /\ task[w].clip \in rawVideo
            /\ task[w].clip \in rawAudio)


\* C13: at the step that completes a crop task whose engine returned 0, the
\* clip's raw video and raw audio are gone from downloaded_dir and the cropped
\* video and the audio (under its own base name) are in cropped_dir.
C13_CompletedCropHandedOff ==
    [][\A w \in Workers :
          (/\ Holds(w, "crop")
           /\ return_code[w] = 0
           /\ pc[w] = "crop_rename"
           /\ pc'[w] = "task_done")
          => (HandedOff(task[w].clip))']_vars


\* C14: a message leaves the queue only into the hands of a free worker, which
\* keeps it while the task body runs; the worker lets go of it either by the
\* acknowledgement, once the body has ended, or by being lost, and then the
\* message is back in the queue, marked redelivered; so no enqueued fetch or
\* crop task disappears before a body has run to its end.
C14_AckAfterBodyOrRequeue ==
    [][/\ \A w \in Workers :
             /\ (pc[w] # "idle" /\ pc'[w] # "idle") => task'[w] = task[w]
             /\ (pc[w] # "idle" /\ pc'[w] = "idle") =>
                   \/ pc[w] \in {"task_done", "task_raise"} /\ queue' = queue
                   \/ /\ Len(queue') = Len(queue) + 1
                      /\ queue'[1].kind = task[w].kind
                      /\ queue'[1].clip = task[w].clip
                      /\ queue'[1].redelivered
                      /\ SubSeq(queue', 2, Len(queue')) = queue
       /\ Len(queue') < Len(queue) =>
             \E w \in Workers, i \in 1..Len(queue) :
                /\ pc[w] = "idle"
                /\ pc'[w] # "idle"
                /\ task'[w].kind = queue[i].kind
                /\ task'[w].clip = queue[i].clip
                /\ queue' = Remove(queue, i)]_vars

\* C14 witness: a task redelivered after its worker was lost has run to the
\* end of its body.
C14_Witness ==
    \E w \in Workers :
        /\ task[w].redelivered
        /\ pc[w] = "task_done"


\* --------------------------------------- crop engine properties, continued
\* C15: for an accepted video of n frames (two sampled frames or more), each
\* of the n frames written is the height x width window around that frame's
\* interpolated center; no frame is left as the zeros it started as.
C15_EveryFrameCropped ==
    (epc = "returned" /\ ret = 0 /\ Len(face_detect_frame_idxs) >= 2) =>
        /\ Len(cropped_frames) = frame_count
        /\ \A f \in 1..frame_count :
              /\ cropped_frames[f] # <<>>
              /\ f \in DOMAIN center_coords_interp
              /\ cropped_frames[f] = <<center_coords_interp[f],
                                       get_height_width(boxes[1][1])>>


\* C16: for every video the engine processes, the number of sampled frames
\* k = min(num_detect_points, n) is at least 2, so that the track has at least
\* one segment to interpolate.
C16_AtLeastTwoSamples ==
    epc \in {"detect", "interpolate", "crop", "returned"} =>
        /\ Len(face_detect_frame_idxs) = Min(num_detect_points, frame_count)
        /\ Len(face_detect_frame_idxs) >= 2


\* The constructor and the sampling of the frame indices alone, on every
\* video of 1..MaxSampleFrames frames and 1..MaxPoints detection points
InitSample ==
    /\ InitPipe
    /\ IdlePad
    /\ num_detect_points \in 1..MaxPoints
    /\ frame_count \in 1..MaxSampleFrames
    /\ epc = "init"
    /\ face_detect_frame_idxs = <<>>
    /\ boxes = <<>>
    /\ center_coords_interp = <<>>
    /\ cropped_frames = <<>>
    /\ ret = -1

NextSample ==
    \/ Construct
    \/ Sample

SpecSample == InitSample /\ [][NextSample]_vars

\* The frame indices have been sampled, for a video of two frames or more.
Sampled == epc = "detect" /\ frame_count >= 2 /\ num_detect_points >= 2

\* The sampled indices are k = min(num_detect_points, n) strictly increasing
\* integers, the first 0 and the last n - 1.
SampledShape ==
    LET ix == face_detect_frame_idxs
        k  == Min(num_detect_points, frame_count)
    IN  /\ Len(ix) = k
        /\ ix[1] = 0
        /\ ix[k] = frame_count - 1
        /\ \A j \in 1..(k - 1) : ix[j] < ix[j + 1]

Abs(x) == IF x < 0 THEN -x ELSE x

Pool == {"w1"}

NextPool ==
    \/ ProducerRow
    \/ \E w \in Pool : Deliver(w)
    \/ \E w \in Pool : FetchCheck(w)
    \/ \E w \in Pool : FetchResolve(w)
    \/ \E w \in Pool : FetchVideo(w)
    \/ \E w \in Pool : FetchAudio(w)
    \/ \E w \in Pool : FetchEnqueue(w)
    \/ \E w \in Pool : CropEngine(w)
    \/ \E w \in Pool : CropRemove(w)
    \/ \E w \in Pool : CropRename(w)
    \/ \E w \in Pool : TaskFinish(w)
    \/ \E w \in Pool : Crash(w)

SpecPool == Init /\ [][NextPool]_vars

\* The clips whose two raw files are on disk and whose crop task is waiting in
\* the queue or running.
Resident ==
    {c \in Clips :
        /\ c \in rawVideo
        /\ c \in rawAudio
        /\ \/ CropMessages(c) # {}
           \/ \E w \in Workers :
                 /\ Holds(w, "crop")
                 /\ task[w].clip = c
                 /\ pc[w] \notin {"task_done", "task_raise"}}

\* C18: with a pool of W workers, one task each, and crop tasks ahead of
\* fetch tasks, the clips with a complete raw download and a crop task not yet
\* finished are never more than W, however many rows the manifest has.
C18_ResidentAtMostPool ==
    Cardinality(Resident) <= Cardinality(Pool)

\* C18 witness: one clip is resident and its crop task was taken ahead of a
\* fetch task for the other clip that is still waiting.
C18_Witness ==
    \E w \in Pool :
        /\ Holds(w, "crop")
        /\ task[w].passed
        /\ task[w].clip \in Resident
        /\ \E i \in 1..Len(queue) :
              queue[i].kind = "fetch" /\ queue[i].clip # task[w].clip


\* ------------------------------------ the interpolation on videos of 3 s
\* Center coordinates and frame counts (75 frames: 3 s at 25 frames/s) of
\* the videos whose interpolation is computed on its own.
InterpCoords == {2, 80, 100, 110, 120}
InterpFrames == {23, 75}

\* A detected box, 4 x 4, with its center at row cy, column cx
BoxAround(cy, cx) == <<cx - 2, cy - 2, cx + 2, cy + 2>>

\* cut_face_from_video after the detection, for the default two detection
\* points: frames 0 and n - 1 sampled, one face found in each.
InitInterp ==
    /\ InitPipe
    /\ IdlePad
    /\ num_detect_points = DefaultDetectPoints
    /\ frame_count \in InterpFrames
    /\ epc = "interpolate"
    /\ face_detect_frame_idxs = <<0, frame_count - 1>>
    /\ \E cy0 \in InterpCoords, cx0 \in InterpCoords,
          cy1 \in InterpCoords, cx1 \in InterpCoords :
          boxes = <<<<BoxAround(cy0, cx0)>>, <<BoxAround(cy1, cx1)>>>>
    /\ center_coords_interp = <<>>
    /\ cropped_frames = <<>>
    /\ ret = -1

NextInterp == Interpolate

SpecInterp == InitInterp /\ [][NextInterp]_vars

\* C19: in every segment between sampled frames i0 < i1 with centers c0 and
\* c1, each frame f of [i0, i1) gets, per coordinate, c0 + (c1 - c0)*(f - i0)
\* /(i1 - i0) cut to an integer; with 75 frames and the centers (100,100) at
\* frame 0 and (110,120) at frame 74, frame 37 gets (105,110).
C19_SegmentFormula ==
    TrackBuilt =>
        /\ \A j \in 1..(Len(face_detect_frame_idxs) - 1) :
              LET i0 == face_detect_frame_idxs[j]
                  i1 == face_detect_frame_idxs[j + 1]
                  c0 == get_center(boxes[j][1])
                  c1 == get_center(boxes[j + 1][1])
              IN  \A f \in i0..(i1 - 1) :
                     center_coords_interp[f + 1] =
                        <<c0[1] + ((c1[1] - c0[1]) * (f - i0)) \div (i1 - i0),
                          c0[2] + ((c1[2] - c0[2]) * (f - i0)) \div (i1 - i0)>>
        /\ (/\ frame_count = 75
            /\ Len(boxes) = 2
            /\ get_center(boxes[1][1]) = <<100, 100>>
            /\ get_center(boxes[2][1]) = <<110, 120>>)
           => center_coords_interp[38] = <<105, 110>>


\* C20: the crop height and width are those of the first sampled frame's box,
\* (upper - lower, right - left), and every frame the engine has cropped has
\* exactly that size, whatever the boxes of the later sampled frames are.
C20_SizeFromFirstBox ==
    (epc = "returned" /\ ret = 0) =>
        LET b == boxes[1][1]
        IN  \A f \in 1..Len(cropped_frames) :
               cropped_frames[f] # <<>>
               => cropped_frames[f][2] = <<b[4] - b[2], b[3] - b[1]>>

\* C20 witness: a video cropped whose last sampled frame holds a box of
\* another size than the first.
C20_Witness ==
    /\ epc = "returned"
    /\ ret = 0
    /\ Len(boxes) >= 2
    /\ get_height_width(boxes[Len(boxes)][1]) # get_height_width(boxes[1][1])
    /\ \E f \in 1..Len(cropped_frames) : cropped_frames[f] # <<>>


\* ------------------------------------------- the pipeline without crashes
\* The pipeline with no worker lost: every step but Crash.
NextLive ==
    \/ ProducerRow
    \/ \E w \in Workers : Deliver(w)
    \/ \E w \in Workers : FetchCheck(w)
    \/ \E w \in Workers : FetchResolve(w)
    \/ \E w \in Workers : FetchVideo(w)
    \/ \E w \in Workers : FetchAudio(w)
    \/ \E w \in Workers : FetchEnqueue(w)
    \/ \E w \in Workers : CropEngine(w)
    \/ \E w \in Workers : CropRemove(w)
    \/ \E w \in Workers : CropRename(w)
    \/ \E w \in Workers : TaskFinish(w)

\* The producer loop runs on, a free worker takes the next message, a worker
\* inside a task body takes its next step (every ffmpeg run ends, by its
\* exit or by its timeout).
SpecLive == Init /\ [][NextLive]_vars /\ WF_vars(NextLive)

\* Clip c is cropped and handed off, or rejected with its raw files left in
\* place, or without any completed download and without cropped files.
Terminal(c) ==
    \/ HandedOff(c)
    \/ /\ faces[c] # Unknown
       /\ ~Accepted(faces[c])
       /\ c \in rawVideo
       /\ c \in rawAudio
       /\ c \notin croppedVideo
       /\ c \notin croppedAudio
    \/ /\ downloads[c] = 0
       /\ c \notin croppedVideo
       /\ c \notin croppedAudio

\* The manifest is used up, the queue is empty and no worker holds a task.
Drained ==
    /\ rowsLeft = 0
    /\ queue = <<>>
    /\ \A w \in Workers : pc[w] = "idle"

C22_OrphanBlocksClip ==
    [][\A c \in Clips :
          c \in orphaned' =>
             /\ c \in rawVideo'
             /\ c \in orphaned =>
                   /\ downloads'[c] = downloads[c]
                   /\ cropEnq'[c] = cropEnq[c]
                   /\ \A w \in Workers :
                         (LeavesCheck(w) /\ task[w].clip = c)
                         => (err'[w] = "FileExistsError" /\ pc'[w] = "task_done")]_vars

====
